---- MODULE Spec2Model ----
(***************************************************************************)
(* Model of the Aurinko auth server (src/main.py): the /auth/init,         *)
(* /auth/relay and /auth/callback handlers, the Redis store they share,    *)
(* the token exchange with the provider and the optional webhook.          *)
(*                                                                         *)
(* The handlers are `async def` functions that only make synchronous       *)
(* calls (redis, httpx.post), so a handler never yields the event loop:    *)
(* one request is in flight at a time (variable req).  Each store or HTTP  *)
(* call of a handler is one step; the environment chooses its outcome.     *)
(***************************************************************************)
EXTENDS Integers, Sequences, FiniteSets, TLC

(* ------------------------------ bounds -------------------------------- *)
MaxReqs == 3          \* requests started in one behaviour
MaxTime == 600        \* the clock stops advancing here

(* ------------------------- program constants -------------------------- *)
StateTTL == 600
DEFAULT_SCOPES == <<"Mail.Read", "Mail.Send">>
AuthorizeEndpoint == "https://api.aurinko.io/v1/auth/authorize"
ProviderCallback == "https://api.aurinko.io/v1/auth/callback"
TokenKeyPrefix == "email-token:"

(* ------------------------------ inputs -------------------------------- *)
Users == {"", "u1", "u2"}                 \* userId query parameter
Codes == {"c1"}                           \* code query parameter
Deltas == {299, 300}                      \* seconds the clock advances by
RequestBase == <<"http", ":", "//svc/">>  \* request.base_url
Queries ==                                \* request.url.query, as characters
  { <<>>,
    <<"c", "=", "1", "&", "s", "=", "x">>,
    <<"&", "&", "=", "%", "Z">>,
    <<"?", "a", " ", "b">> }

\* The process environment: fixed for the life of the process.
NoEnv == <<>>
Envs ==
  { [client_id |-> <<"cid">>, client_secret |-> <<"sec">>,
     webhook |-> <<"http://hook/">>, success |-> <<"https://app/done">>,
     base |-> <<"https", ":", "//pub">>],
    [client_id |-> <<"cid">>, client_secret |-> <<"sec">>,
     webhook |-> NoEnv, success |-> NoEnv, base |-> NoEnv],
    [client_id |-> <<"cid">>, client_secret |-> NoEnv,
     webhook |-> NoEnv, success |-> NoEnv, base |-> NoEnv],
    [client_id |-> NoEnv, client_secret |-> <<"sec">>,
     webhook |-> <<"http://hook/">>, success |-> NoEnv, base |-> NoEnv] }

(* ------------------------------- JSON --------------------------------- *)
\* A JSON text is a sequence of tokens; a Python dict is a sequence of
\* <<key, value>> pairs with distinct keys, in insertion order.
P(c) == <<"p", c>>
S(s) == <<"s", s>>
WS == P(" ")

RECURSIVE dumpsItems(_)
dumpsItems(d) ==
  IF d = <<>> THEN <<>>
  ELSE <<S(d[1][1]), P(":"), S(d[1][2])>>
       \o (IF Len(d) > 1 THEN <<P(",")>> ELSE <<>>)
       \o dumpsItems(Tail(d))

\* json.dumps(obj, separators=(",", ":"))
dumps(d) == <<P("{")>> \o dumpsItems(d) \o <<P("}")>>

IsWS(t) == t = WS
NotWS(t) == ~IsWS(t)

WellFormed(t) ==
  /\ Len(t) >= 2
  /\ t[1] = P("{")
  /\ t[Len(t)] = P("}")
  /\ LET inner == SubSeq(t, 2, Len(t) - 1)
     IN  \/ inner = <<>>
         \/ /\ (Len(inner) + 1) % 4 = 0
            /\ \A i \in 1..Len(inner) :
                 CASE i % 4 = 1 -> inner[i][1] = "s"
                   [] i % 4 = 2 -> inner[i] = P(":")
                   [] i % 4 = 3 -> inner[i][1] = "s"
                   [] OTHER     -> inner[i] = P(",")

HasKey(d, k) == \E i \in 1..Len(d) : d[i][1] = k

\* dict[k] = v: replaces the value in place, or appends a new pair
DictSet(d, k, v) ==
  IF HasKey(d, k)
  THEN [i \in 1..Len(d) |-> IF d[i][1] = k THEN <<k, v>> ELSE d[i]]
  ELSE Append(d, <<k, v>>)

RECURSIVE DictOf(_, _)
DictOf(inner, acc) ==
  IF Len(inner) < 3 THEN acc
  ELSE DictOf(SubSeq(inner, 5, Len(inner)),
              DictSet(acc, inner[1][2], inner[3][2]))

\* json.loads(raw): ok = FALSE stands for json.JSONDecodeError
loads(raw) ==
  LET t == SelectSeq(raw, NotWS)
  IN  IF WellFormed(t)
      THEN [ok |-> TRUE, val |-> DictOf(SubSeq(t, 2, Len(t) - 1), <<>>)]
      ELSE [ok |-> FALSE, val |-> <<>>]

\* dict.get(k): <<>> stands for None, <<v>> for the value v
Get(d, k) ==
  IF HasKey(d, k)
  THEN <<d[CHOOSE i \in 1..Len(d) : d[i][1] = k][2]>>
  ELSE <<>>

\* Python truthiness of dict.get's result: None and "" are falsy
Falsy(r) == r = <<>> \/ r[1] = ""

\* Bodies the provider's token endpoint can answer a 2xx with
BodySpaced == <<P("{"), S("accessToken"), P(":"), WS, S("t1"), P("}")>>
BodyWithUser ==
  <<P("{"), S("accessToken"), P(":"), S("t2"), P(","),
    S("userId"), P(":"), S("u2"), P("}")>>
BodyTruncated == <<P("{"), S("accessToken")>>
Bodies == {BodySpaced, BodyWithUser, BodyTruncated}

\* What httpx.post + raise_for_status can end with
ExchangeOutcomes ==
  {[kind |-> "ok", body |-> b] : b \in Bodies}
    \cup {[kind |-> "status", body |-> <<>>],
          [kind |-> "transport", body |-> <<>>]}
WebhookOutcomes == {"ok", "status", "transport"}

(* ------------------------------ store --------------------------------- *)
\* str(uuid.uuid4()) of the n-th call: a value no earlier call returned
uuid4(n) == ToString(n)
\* a state token is used as a key as it is, without a prefix
StateKey(n) == <<"", uuid4(n)>>
\* f"email-token:{user_id}"
TokenKey(u) == <<TokenKeyPrefix, u>>
Bogus == <<"", "bogus">>

Keys == {StateKey(n) : n \in 1..MaxReqs} \cup {TokenKey(u) : u \in Users}
          \cup {Bogus}

NoExpiry == -1
Absent == [present |-> FALSE, val |-> <<>>, exp |-> NoExpiry]

\* Redis SETEX key ttl value
setex(st, k, ttl, v, t) ==
  [st EXCEPT ![k] = [present |-> TRUE, val |-> v, exp |-> t + ttl]]

\* SET with an expiry at the state TTL
set_expiring(st, k, v) ==
  [st EXCEPT ![k] = [present |-> TRUE, val |-> v, exp |-> StateTTL]]

\* SET with NX: a key that exists keeps its value
set_nx(st, k, v) ==
  IF st[k].present THEN st
  ELSE [st EXCEPT ![k] = [present |-> TRUE, val |-> v, exp |-> NoExpiry]]

\* Redis SET key value: the key loses any expiry
set(st, k, v) ==
  [st EXCEPT ![k] = [present |-> TRUE, val |-> v, exp |-> NoExpiry]]

\* Redis GET key: <<>> stands for None
get(st, k) == IF st[k].present THEN <<st[k].val>> ELSE <<>>

\* GETDEL in the place of GET: the key is consumed by the read
after_getdel(st, k) == [st EXCEPT ![k] = Absent]

\* the store after Redis GET key: a read leaves the key in place
after_get(st, k) == st

\* Redis drops a key once its expiry time is reached
Expire(st, t) ==
  [k \in Keys |->
     IF st[k].present /\ st[k].exp # NoExpiry /\ st[k].exp <= t
     THEN Absent ELSE st[k]]

(* ------------------------ helpers of main.py -------------------------- *)
Truthy(v) == v # <<>> /\ v[1] # ""

\* get_aurinko_config testing the client id alone
get_aurinko_config_idonly(e) == Truthy(e.client_id)

\* get_aurinko_config(): FALSE stands for HTTPException(500)
get_aurinko_config(e) == Truthy(e.client_id) /\ Truthy(e.client_secret)

\* An outcome of a helper: exc is "none" (returned), "http" (HTTPException
\* with status and detail) or "other" (any other exception).
Returned(v) == [exc |-> "none", status |-> 0, detail |-> "", val |-> v]
HTTPException(code, d) ==
  [exc |-> "http", status |-> code, detail |-> d, val |-> <<>>]
Raised == [exc |-> "other", status |-> 0, detail |-> "", val |-> <<>>]

\* load_oauth_state with the missing-key check left out: a missing key
\* loads as an empty-handed default payload
load_oauth_state_nocheck(st, k, reachable) ==
  IF ~reachable THEN HTTPException(400, "Invalid state")
  ELSE LET raw == get(st, k)
       IN  IF raw = <<>> \/ raw[1] = <<>>
           THEN Returned(<<<<"userId", "u1">>>>)
           ELSE IF ~loads(raw[1]).ok
                THEN HTTPException(400, "Corrupted state")
                ELSE Returned(loads(raw[1]).val)

\* load_oauth_state(state); reachable = FALSE: the redis call raises
load_oauth_state(st, k, reachable) ==
  IF ~reachable THEN HTTPException(400, "Invalid state")
  ELSE LET raw == get(st, k)
       IN  IF raw = <<>> \/ raw[1] = <<>>
           THEN HTTPException(400, "Invalid state")
           ELSE IF ~loads(raw[1]).ok
                THEN HTTPException(400, "Corrupted state")
                ELSE Returned(loads(raw[1]).val)

\* save_oauth_state passing its ttl in the wrong unit
save_oauth_state_longer(k, payload) ==
  [key |-> k, ttl |-> StateTTL * 60, val |-> dumps(payload)]

\* save_oauth_state(state, payload, ttl=600): the SETEX it sends
save_oauth_state(k, payload) ==
  [key |-> k, ttl |-> StateTTL, val |-> dumps(payload)]

\* save_oauth_state logging a failed write without raising
save_failed_logged == Returned(<<>>)

\* save_oauth_state when the redis call raises: HTTPException(500)
save_failed == HTTPException(500, "Internal error")

\* exchange_code_for_token without raise_for_status and its except
\* clause: a failed POST yields an empty token response
exchange_code_for_token_unchecked(e, outcome) ==
  IF ~get_aurinko_config(e)
  THEN HTTPException(500, "Server misconfiguration")
  ELSE IF outcome.kind # "ok"
       THEN Returned(<<>>)
       ELSE IF loads(outcome.body).ok
            THEN Returned(loads(outcome.body).val)
            ELSE Raised

\* exchange_code_for_token(code), given what the POST ends with
exchange_code_for_token(e, outcome) ==
  IF ~get_aurinko_config(e)
  THEN HTTPException(500, "Server misconfiguration")
  ELSE IF outcome.kind # "ok"
       THEN HTTPException(502, "Token exchange with Aurinko failed")
       ELSE IF loads(outcome.body).ok
            THEN Returned(loads(outcome.body).val)
            ELSE Raised

\* persist_token writing the record under one shared key
persist_token_shared(user_id, token_res) ==
  [key |-> TokenKey("u1"), val |-> dumps(token_res)]

\* persist_token(user_id, token_res): the SET it sends
persist_token(user_id, token_res) ==
  [key |-> TokenKey(user_id), val |-> dumps(token_res)]

\* persist_token logging a failed write without re-raising
persist_failed_logged == Returned(<<>>)

\* persist_token when the redis call raises: the exception is re-raised
persist_failed == Raised

\* the webhook body naming one fixed user
webhook_payload_fixed(user_id) == <<<<"userId", "u1">>>>

\* json={"userId": user_id} of notify_webhook
webhook_payload(user_id) == <<<<"userId", user_id>>>>

\* notify_webhook without its except clause
notify_webhook_raising(outcome) ==
  IF outcome = "ok" THEN Returned(<<>>)
  ELSE Raised

\* notify_webhook(user_id): httpx.HTTPError (status or transport) is
\* swallowed, so the helper returns in every case
notify_webhook(outcome) ==
  IF outcome = "ok" THEN Returned(<<>>)
  ELSE Returned(<<>>)       \* except httpx.HTTPError: logged only

\* the except clauses of init_oauth and oauth_callback
Normalize(r) ==
  IF r.exc = "other" THEN HTTPException(500, "Internal server error") ELSE r

\* urllib.parse.quote on the pieces of a string
QuotePiece(c) ==
  CASE c = " " -> "%20"
    [] c = ":" -> "%3A"
    [] OTHER   -> c
Quote(sq) == [i \in 1..Len(sq) |-> QuotePiece(sq[i])]

RECURSIVE Join(_, _)
Join(sq, sep) ==
  IF sq = <<>> THEN <<>>
  ELSE IF Len(sq) = 1 THEN <<sq[1]>>
  ELSE <<sq[1], sep>> \o Join(Tail(sq), sep)

\* base_url of init_oauth: BASE_URL, else scheme://host of the request
BaseUrl(e) == IF e.base # NoEnv THEN e.base ELSE <<"http", ":", "//svc">>

\* the authorize URL of init_oauth, as a sequence of pieces
authorize_url(e, k) ==
  <<AuthorizeEndpoint, "?clientId=">> \o e.client_id
    \o <<"&serviceType=", "Google", "&scopes=">>
    \o Quote(Join(DEFAULT_SCOPES, " "))
    \o <<"&responseType=", "code", "&returnUrl=">>
    \o Quote(BaseUrl(e) \o <<"/auth/callback">>)
    \o <<"&state=", k[2]>>

\* forward_url with the query string percent-encoded again
forward_url_requoted(query) == <<ProviderCallback, "?">> \o Quote(query)

\* forward_url of relay_callback
forward_url(query) == <<ProviderCallback, "?">> \o query

\* success_url of oauth_callback
success_url(e) ==
  IF e.success # NoEnv THEN e.success ELSE RequestBase \o <<"auth/success">>

(* ------------------------------ state --------------------------------- *)
VARIABLES
  env,        \* the process environment
  now,        \* the clock, in seconds
  store,      \* the Redis database
  uuids,      \* number of uuid4() calls made
  req,        \* the request in flight, or the last one answered
  nreq,       \* requests started
  issued,     \* history: the state entries Init saved
  persisted   \* history: TokenRecord writes per presented state

vars == <<env, now, store, uuids, req, nreq, issued, persisted>>

NoResponse == [status |-> 0, detail |-> "", location |-> <<>>]
Redirect(url) == [status |-> 307, detail |-> "", location |-> url]
ErrorResponse(r) == [status |-> r.status, detail |-> r.detail, location |-> <<>>]

\* One store or HTTP call of the request in flight; had: the key was in the
\* store when the call was made, was: the value it had there
Event(o, k, v, okay) ==
  [op |-> o, key |-> k, val |-> v, ok |-> okay, at |-> now,
   had |-> IF k \in Keys THEN store[k].present ELSE FALSE,
   was |-> IF k \in Keys THEN store[k].val ELSE <<>>]

NewRequest(kd, p, u, c, k, q) ==
  [kind |-> kd, pc |-> p, userId |-> u, code |-> c, state |-> k, query |-> q,
   tokenRes |-> <<>>, log |-> <<>>, response |-> NoResponse]

Free == req.pc \in {"idle", "done"}

Finish(resp) == [req EXCEPT !.pc = "done", !.response = resp]

Init ==
  /\ env \in Envs
  /\ now = 0
  /\ store = [k \in Keys |-> Absent]
  /\ uuids = 0
  /\ req = NewRequest("none", "idle", "", "", Bogus, <<>>)
  /\ nreq = 0
  /\ issued = <<>>
  /\ persisted = [k \in Keys |-> 0]

\* time passes; keys whose expiry is reached leave the store.  The clock
\* moves in minutes: between requests and while a request waits on a store
\* or HTTP call, not across the few statements that build a response.
Tick ==
  \E d \in Deltas :
    /\ req.pc \notin {"init_redirect", "cb_redirect"}
    /\ now + d <= MaxTime
    /\ now' = now + d
    /\ store' = Expire(store, now + d)
    /\ UNCHANGED <<env, uuids, req, nreq, issued, persisted>>

(* ----------------------------- /auth/init ----------------------------- *)
\* a state token that is the same on every call
new_state_fixed(n) == StateKey(1)

\* state = str(uuid.uuid4()), on the n-th call of uuid4
new_state(n) == StateKey(n)

InitStart ==
  \E u \in Users :
    /\ Free
    /\ nreq < MaxReqs
    /\ nreq' = nreq + 1
    /\ req' = NewRequest("init", "init_save", u, "", Bogus, <<>>)
    /\ UNCHANGED <<env, now, store, uuids, issued, persisted>>

\* get_aurinko_config(), uuid4() and save_oauth_state()
InitSave ==
  /\ req.pc = "init_save"
  /\ IF ~get_aurinko_config(env)
     THEN /\ req' = Finish(ErrorResponse(HTTPException(500, "Server misconfiguration")))
          /\ UNCHANGED <<store, uuids, issued>>
     ELSE LET k == new_state(uuids + 1)
              cmd == save_oauth_state(k, <<<<"userId", req.userId>>>>)
          IN  /\ uuids' = uuids + 1
              /\ \E reachable \in BOOLEAN :
                   IF reachable
                   THEN /\ store' = setex(store, cmd.key, cmd.ttl, cmd.val, now)
                        /\ issued' = Append(issued,
                              [state |-> k, user |-> req.userId, at |-> now])
                        /\ req' = [req EXCEPT !.pc = "init_redirect",
                              !.state = k,
                              !.log = Append(@, Event("setex", cmd.key, cmd.val, TRUE))]
                   ELSE /\ req' = [req EXCEPT
                              !.pc = IF save_failed.exc # "none"
                                     THEN "done" ELSE "init_redirect",
                              !.response = IF save_failed.exc # "none"
                                           THEN ErrorResponse(Normalize(save_failed))
                                           ELSE NoResponse,
                              !.state = k,
                              !.log = Append(@, Event("setex", cmd.key, cmd.val, FALSE))]
                        /\ UNCHANGED <<store, issued>>
  /\ UNCHANGED <<env, now, nreq, persisted>>

InitRedirect ==
  /\ req.pc = "init_redirect"
  /\ req' = Finish(Redirect(authorize_url(env, req.state)))
  /\ UNCHANGED <<env, now, store, uuids, nreq, issued, persisted>>

(* ---------------------------- /auth/relay ----------------------------- *)
relay_callback ==
  \E q \in Queries :
    /\ Free
    /\ nreq < MaxReqs
    /\ nreq' = nreq + 1
    /\ req' = [NewRequest("relay", "done", "", "", Bogus, q)
                 EXCEPT !.response = Redirect(forward_url(q))]
    /\ UNCHANGED <<env, now, store, uuids, issued, persisted>>

(* --------------------------- /auth/callback --------------------------- *)
\* The state parameter is any string: a state token Init issued, the key of
\* a TokenRecord, or a string that is no key at all.
StateInputs ==
  {StateKey(n) : n \in 1..uuids} \cup {TokenKey(u) : u \in Users \ {""}}
    \cup {Bogus}

CallbackStart ==
  \E c \in Codes, k \in StateInputs :
    /\ Free
    /\ nreq < MaxReqs
    /\ nreq' = nreq + 1
    /\ req' = NewRequest("callback", "cb_load", "", c, k, <<>>)
    /\ UNCHANGED <<env, now, store, uuids, issued, persisted>>

\* stored = load_oauth_state(state); user_id = stored.get("userId")
CallbackLoad ==
  /\ req.pc = "cb_load"
  /\ \E reachable \in BOOLEAN :
       LET r == load_oauth_state(store, req.state, reachable)
           user_id == Get(r.val, "userId")
           logged == [req EXCEPT !.log =
                        Append(@, Event("get", req.state, <<>>, reachable))]
       IN  /\ req' =
                IF r.exc # "none"
                THEN [logged EXCEPT !.pc = "done",
                                    !.response = ErrorResponse(Normalize(r))]
                ELSE IF Falsy(user_id)
                     THEN [logged EXCEPT !.pc = "done",
                             !.response = ErrorResponse(
                                HTTPException(400, "Invalid state data"))]
                     ELSE [logged EXCEPT !.pc = "cb_exchange",
                                         !.userId = user_id[1]]
           /\ store' = IF reachable THEN after_get(store, req.state)
                       ELSE store
  /\ UNCHANGED <<env, now, uuids, nreq, issued, persisted>>

\* token_res = exchange_code_for_token(code)
CallbackExchange ==
  /\ req.pc = "cb_exchange"
  /\ \E o \in ExchangeOutcomes :
       LET r == exchange_code_for_token(env, o)
           logged == IF get_aurinko_config(env)
                     THEN [req EXCEPT !.log = Append(@,
                             Event("exchange", <<"code", req.code>>, o.body,
                                   o.kind = "ok"))]
                     ELSE req
       IN  IF r.exc # "none"
           THEN req' = [logged EXCEPT !.pc = "done",
                                      !.response = ErrorResponse(Normalize(r))]
           ELSE req' = [logged EXCEPT !.pc = "cb_persist", !.tokenRes = r.val]
  /\ UNCHANGED <<env, now, store, uuids, nreq, issued, persisted>>

\* persist_token(user_id, token_res)
CallbackPersist ==
  /\ req.pc = "cb_persist"
  /\ \E reachable \in BOOLEAN :
       LET cmd == persist_token(req.userId, req.tokenRes)
       IN  IF reachable
           THEN /\ store' = set(store, cmd.key, cmd.val)
                /\ persisted' = [persisted EXCEPT ![req.state] = @ + 1]
                /\ req' = [req EXCEPT !.pc = "cb_notify",
                      !.log = Append(@, Event("set", cmd.key, cmd.val, TRUE))]
           ELSE /\ req' = [req EXCEPT
                      !.pc = IF persist_failed.exc # "none"
                             THEN "done" ELSE "cb_notify",
                      !.response = IF persist_failed.exc # "none"
                                   THEN ErrorResponse(Normalize(persist_failed))
                                   ELSE NoResponse,
                      !.log = Append(@, Event("set", cmd.key, cmd.val, FALSE))]
                /\ UNCHANGED <<store, persisted>>
  /\ UNCHANGED <<env, now, uuids, nreq, issued>>

\* notify_webhook(user_id)
CallbackNotify ==
  /\ req.pc = "cb_notify"
  /\ IF ~Truthy(env.webhook)
     THEN req' = [req EXCEPT !.pc = "cb_redirect"]
     ELSE \E o \in WebhookOutcomes :
            LET r == notify_webhook(o)
                logged == [req EXCEPT !.log = Append(@,
                             Event("webhook", <<"userId", req.userId>>,
                                   dumps(webhook_payload(req.userId)),
                                   o = "ok"))]
            IN  IF r.exc # "none"
                THEN req' = [logged EXCEPT !.pc = "done",
                               !.response = ErrorResponse(Normalize(r))]
                ELSE req' = [logged EXCEPT !.pc = "cb_redirect"]
  /\ UNCHANGED <<env, now, store, uuids, nreq, issued, persisted>>

\* return RedirectResponse(success_url)
CallbackRedirect ==
  /\ req.pc = "cb_redirect"
  /\ req' = Finish(Redirect(success_url(env)))
  /\ UNCHANGED <<env, now, store, uuids, nreq, issued, persisted>>

Next ==
  \/ Tick
  \/ InitStart \/ InitSave \/ InitRedirect
  \/ relay_callback
  \/ CallbackStart \/ CallbackLoad \/ CallbackExchange
  \/ CallbackPersist \/ CallbackNotify \/ CallbackRedirect

Spec == Init /\ [][Next]_vars

(* ============================= properties ============================= *)
Last(sq) == sq[Len(sq)]
Events(o) == {i \in 1..Len(req.log) : req.log[i].op = o}
IsCallback == req.kind = "callback"
Answered == req.pc = "done"
\* the state entries Init saved under the key k
IssuedAs(k) == {i \in 1..Len(issued) : issued[i].state = k}

\* C1: a callback whose state parameter is not a key of the store when it
\* is loaded ends with a 400 after the load alone: no exchange call, no
\* TokenRecord write and no webhook are made by that request.
C1_AbsentStateRejected ==
  (IsCallback /\ Len(req.log) >= 1 /\ ~req.log[1].had)
    => /\ Answered
       /\ req.response.status = 400
       /\ req.log[1].op = "get"
       /\ Len(req.log) = 1

\* C1 witness: a callback presenting an issued state after its expiry, with
\* the store reachable, was answered.
C1_Witness ==
  /\ IsCallback /\ Answered
  /\ Len(req.log) = 1 /\ req.log[1].ok /\ ~req.log[1].had
  /\ IssuedAs(req.state) # {}
  /\ req.response.status = 400

\* C2: a callback whose state Init bound to u and was still stored when
\* loaded, whose exchange the provider answered with the token response r,
\* with the store reachable, ends with the redirect to the success URL and
\* with exactly one TokenRecord write, under email-token:u, holding r.
C2_Accepted ==
  /\ IsCallback /\ Answered
  /\ Len(req.log) >= 2
  /\ req.log[1].ok /\ req.log[1].had
  /\ IssuedAs(req.state) # {}
  /\ req.log[2].op = "exchange" /\ req.log[2].ok /\ loads(req.log[2].val).ok
  /\ \A i \in Events("set") : req.log[i].ok

C2_SuccessPersistsOnce ==
  C2_Accepted =>
    LET u == issued[CHOOSE i \in IssuedAs(req.state) : TRUE].user
        r == loads(req.log[2].val).val
    IN  /\ req.response = Redirect(success_url(env))
        /\ Cardinality(Events("set")) = 1
        /\ \A i \in Events("set") :
             /\ req.log[i].key = TokenKey(u)
             /\ loads(req.log[i].val) = [ok |-> TRUE, val |-> r]
        /\ store[TokenKey(u)].present
        /\ loads(store[TokenKey(u)].val) = [ok |-> TRUE, val |-> r]

\* C2 witness: such a callback for u2 was answered, the provider's body
\* being one that its compact re-serialisation differs from.
C2_Witness ==
  /\ C2_Accepted
  /\ req.userId = "u2"
  /\ req.log[2].val = BodySpaced
  /\ store[TokenKey("u2")].val # BodySpaced
  /\ req.response.status = 307

\* C3: when the exchange of a callback fails with a non-success status or a
\* transport error, the request is answered 502 at once: the store is left
\* as it was (no TokenRecord written, the state entry kept) and no webhook
\* is sent.
C3_FailedExchange ==
  IsCallback /\ Len(req.log) >= 2 /\ req.log[2].op = "exchange" /\ ~req.log[2].ok

C3_ExchangeFailureHalts ==
  /\ [](C3_FailedExchange =>
          /\ Answered
          /\ req.response.status = 502
          /\ Len(req.log) = 2)
  /\ [][(req.pc = "cb_exchange" /\ req'.pc = "done"
           /\ req'.response.status = 502)
          => (store' = store /\ persisted' = persisted)]_vars
  /\ [][(req.pc = "cb_exchange" /\ Len(req'.log) > Len(req.log)
           /\ ~Last(req'.log).ok)
          => (req'.pc = "done" /\ store' = store)]_vars

\* C3 witness: a callback was answered 502 while the user's earlier
\* TokenRecord and the state entry are both still in the store.
C3_Witness ==
  /\ C3_FailedExchange /\ Answered
  /\ req.response.status = 502
  /\ store[TokenKey(req.userId)].present
  /\ store[req.state].present

C5_StateExpiresAfterTTL ==
  /\ \A i \in 1..Len(issued) :
       LET e == store[issued[i].state]
       IN  /\ now >= issued[i].at + 600 => ~e.present
           /\ e.present => e.exp = issued[i].at + 600
  /\ (/\ IsCallback /\ Len(req.log) >= 1
      /\ \E i \in IssuedAs(req.state) : req.log[1].at >= issued[i].at + 600)
       => (Answered /\ req.response.status = 400 /\ Len(req.log) = 1)

\* C5 witness: a callback loaded an issued state exactly 600 seconds after
\* its save and was answered 400.
C5_Witness ==
  /\ IsCallback /\ Answered
  /\ Len(req.log) = 1 /\ req.log[1].ok
  /\ \E i \in IssuedAs(req.state) : req.log[1].at = issued[i].at + 600
  /\ req.response.status = 400

\* C6: the state token of an Init that returns a redirect (a) differs from
\* the token of every other Init and is saved under a key that was not in
\* the store, (b) is saved with a payload whose userId is the request's,
\* (c) is the value of the state parameter, the last of the redirect URL.
C6_InitStateToken ==
  /\ \A i, j \in 1..Len(issued) :
       i # j => issued[i].state # issued[j].state
  /\ req.kind = "init" => \A i \in Events("setex") : ~req.log[i].had
  /\ (req.kind = "init" /\ Answered /\ req.response.status = 307) =>
       LET url == req.response.location
       IN  /\ Len(req.log) = 1
           /\ req.log[1].op = "setex" /\ req.log[1].ok
           /\ req.log[1].key = req.state
           /\ Get(loads(req.log[1].val).val, "userId") = <<req.userId>>
           /\ \E i \in IssuedAs(req.state) : issued[i].user = req.userId
           /\ store[req.state].present =>
                store[req.state].val = req.log[1].val
           /\ Len(url) >= 2
           /\ url[Len(url) - 1] = "&state="
           /\ <<"", url[Len(url)]>> = req.state
           /\ \A p \in 1..Len(url) : url[p] = "&state=" => p = Len(url) - 1

\* C6 witness: a second Init, for u2, returned its redirect.
C6_Witness ==
  /\ req.kind = "init" /\ Answered
  /\ req.response.status = 307
  /\ req.userId = "u2"
  /\ Len(issued) >= 2

\* C7: no state token issued by Init leads to more than one TokenRecord
\* write, over all the callbacks that present it.
C7_SingleUse ==
  \A i \in 1..Len(issued) : persisted[issued[i].state] <= 1

\* C8: a callback whose state load finds the store unreachable is answered
\* with a 500, not with the 400 of an absent or corrupted state.
C8_StoreUnavailableIs500 ==
  (IsCallback /\ Len(req.log) >= 1 /\ req.log[1].op = "get" /\ ~req.log[1].ok)
    => (Answered /\ req.response.status = 500)

\* C9: a state entry that Init saved and a callback finds in the store
\* holds a non-empty userId, and that callback is never answered
\* 400 'Invalid state data'.
C9_NonEmptyUserId ==
  (/\ IsCallback /\ Len(req.log) >= 1
   /\ req.log[1].ok /\ req.log[1].had
   /\ IssuedAs(req.state) # {})
    => /\ \A i \in IssuedAs(req.state) : issued[i].user # ""
       /\ ~(Answered /\ req.response.detail = "Invalid state data")

\* C10: the relay answers with a redirect to the provider's callback URL,
\* a "?" and the inbound query string, piece for piece; it makes no store
\* or provider call and leaves the store, the clock and the histories alone.
C10_RelayPassThrough ==
  /\ [](req.kind = "relay" =>
          LET url == req.response.location
          IN  /\ Answered
              /\ req.response.status = 307
              /\ req.log = <<>>
              /\ Len(url) = Len(req.query) + 2
              /\ url[1] = ProviderCallback
              /\ url[2] = "?"
              /\ \A i \in 1..Len(req.query) : url[i + 2] = req.query[i])
  /\ [][(req'.kind = "relay" /\ nreq' # nreq) =>
          /\ store' = store
          /\ uuids' = uuids
          /\ issued' = issued
          /\ persisted' = persisted]_vars

\* C10 witness: a query string with a space and a second "?" was relayed
\* while the store held an entry.
C10_Witness ==
  /\ req.kind = "relay" /\ Answered
  /\ req.query = <<"?", "a", " ", "b">>
  /\ \E k \in Keys : store[k].present

\* C11: when the client id or the client secret is unset, an Init request
\* is answered 500 without any uuid4 or store call, and the store never
\* holds a state entry.
Unconfigured == env.client_id = NoEnv \/ env.client_secret = NoEnv

C11_MisconfiguredInit ==
  Unconfigured =>
    /\ issued = <<>>
    /\ uuids = 0
    /\ \A k \in Keys : ~store[k].present
    /\ req.kind = "init" =>
         /\ req.pc \in {"init_save", "done"}
         /\ req.log = <<>>
         /\ Answered =>
              /\ req.response.status = 500
              /\ req.response.location = <<>>

\* C11 witness: with the client secret unset, an Init for u1 was answered
\* 500 'Server misconfiguration'.
C11_Witness ==
  /\ env.client_secret = NoEnv
  /\ req.kind = "init" /\ Answered
  /\ req.userId = "u1"
  /\ req.response.detail = "Server misconfiguration"

\* C12: a callback whose TokenRecord write failed is answered 500 at once:
\* the failed write is its last call, no webhook is sent and no redirect is
\* returned.
C12_PersistFailureIsFatal ==
  (IsCallback /\ \E i \in Events("set") : ~req.log[i].ok) =>
    /\ Answered
    /\ req.response.status = 500
    /\ req.response.location = <<>>
    /\ Last(req.log).op = "set"
    /\ Events("webhook") = {}

\* C12 witness: with a webhook configured, a callback whose exchange was
\* accepted and whose write failed was answered 500.
C12_Witness ==
  /\ IsCallback /\ Answered
  /\ Truthy(env.webhook)
  /\ Len(req.log) = 3
  /\ req.log[2].op = "exchange" /\ req.log[2].ok
  /\ req.log[3].op = "set" /\ ~req.log[3].ok
  /\ req.response.status = 500

\* C13: the record under email-token:u changes only by a successful
\* TokenRecord write of a callback for u, and right after such a write it
\* is, whole, the provider response of that callback: so it always equals
\* the response of the callback that wrote last.
C13_LastWriteWins ==
  [][\A u \in Users :
       LET k == TokenKey(u)
           wrote == /\ req.pc = "cb_persist"
                    /\ Len(req'.log) > Len(req.log)
                    /\ Last(req'.log).op = "set"
                    /\ Last(req'.log).ok
                    /\ req.userId = u
       IN  /\ store'[k] # store[k] => wrote
           /\ wrote =>
                /\ store'[k].present
                /\ req.log[2].op = "exchange"
                /\ loads(store'[k].val) =
                     [ok |-> TRUE, val |-> loads(req.log[2].val).val]]_vars

\* C13 witness: a callback overwrote the user's record with a different
\* response, which is what the store now holds.
C13_Witness ==
  /\ IsCallback
  /\ \E i \in Events("set") :
       /\ req.log[i].ok /\ req.log[i].had
       /\ req.log[i].was # req.log[i].val
       /\ store[req.log[i].key].val = req.log[i].val

\* C14: while a request is waiting on a store call or an outbound HTTP
\* call, another request that arrives can be taken up.
Waiting ==
  req.pc \in {"init_save", "cb_load", "cb_exchange", "cb_persist", "cb_notify"}

C14_NoBlocking ==
  (Waiting /\ nreq < MaxReqs) => ENABLED relay_callback

\* C15: until 600 seconds after its save, a state entry is in the store
\* exactly as Init wrote it, whatever callbacks have presented it; and a
\* callback that loads, within that time, a state that already led to a
\* TokenRecord write passes the state validation again.
C15_StateLeftInStore ==
  /\ \A i \in 1..Len(issued) :
       now < issued[i].at + 600 =>
         /\ store[issued[i].state].present
         /\ store[issued[i].state].val =
              <<P("{"), S("userId"), P(":"), S(issued[i].user), P("}")>>
         /\ store[issued[i].state].exp = issued[i].at + 600
  /\ (/\ IsCallback /\ Len(req.log) >= 1 /\ req.log[1].ok
      /\ persisted[req.state] >= 1
      /\ \E i \in IssuedAs(req.state) : req.log[1].at < issued[i].at + 600)
       => ~(Answered /\ Len(req.log) = 1)

\* C15 witness: a second callback presenting the same state was answered
\* with the success redirect, the state entry still in the store.
C15_Witness ==
  /\ IsCallback /\ Answered
  /\ req.response.status = 307
  /\ IssuedAs(req.state) # {}
  /\ persisted[req.state] = 2
  /\ store[req.state].present

\* C16: a request makes each of its calls at most once (Init: the state
\* write; callback: state load, exchange, TokenRecord write, webhook; relay:
\* none), and a failed store or exchange call is the last call of its
\* request, which is answered with an error.
C16_NoRetries ==
  /\ \A o \in {"get", "setex", "exchange", "set", "webhook"} :
       Cardinality(Events(o)) <= 1
  /\ req.kind = "init" => \A i \in 1..Len(req.log) : req.log[i].op = "setex"
  /\ req.kind = "callback" => Events("setex") = {}
  /\ req.kind \in {"relay", "none"} => req.log = <<>>
  /\ \A i \in 1..Len(req.log) :
       (req.log[i].op \in {"get", "setex", "exchange", "set"} /\ ~req.log[i].ok)
         => /\ i = Len(req.log)
            /\ Answered
            /\ req.response.status >= 400

\* C16 witness: an Init whose state write failed was answered 500 with
\* that write as its only call.
C16_Witness ==
  /\ req.kind = "init" /\ Answered
  /\ Len(req.log) = 1 /\ ~req.log[1].ok
  /\ req.response.status = 500

\* C17: a callback gets as far as the exchange only when its state
\* parameter is a state token that Init issued: what it loads is never a
\* TokenRecord or any other key Init did not write.
ReachedExchange ==
  \/ req.pc \in {"cb_exchange", "cb_persist", "cb_notify", "cb_redirect"}
  \/ Len(req.log) >= 2

C17_OnlyIssuedStates ==
  (IsCallback /\ ReachedExchange) => IssuedAs(req.state) # {}

\* C18: a TokenRecord has no expiry and, once in the store, stays there
\* through every step, the passing of time included; its value changes
\* only in the TokenRecord write of a callback for that user whose exchange
\* was accepted.
C18_TokenRecordStays ==
  /\ [](\A u \in Users :
          store[TokenKey(u)].present => store[TokenKey(u)].exp = NoExpiry)
  /\ [][\A u \in Users :
          LET k == TokenKey(u)
          IN  store[k].present =>
                /\ store'[k].present
                /\ store'[k].val # store[k].val =>
                     /\ req.pc = "cb_persist"
                     /\ req.userId = u
                     /\ req.log[2].op = "exchange" /\ req.log[2].ok]_vars

\* C18 witness: a TokenRecord written at time 0 is in the store 600 seconds
\* later, after an Init that followed.
C18_Witness ==
  /\ now = 600
  /\ req.kind = "init" /\ Answered
  /\ \E u \in Users : store[TokenKey(u)].present
  /\ \E i \in 1..Len(issued) : issued[i].at = 0 /\ persisted[issued[i].state] >= 1

\* C19: an Init whose state write failed is answered 500 without a
\* redirect; an Init answered with a redirect made one successful state
\* write before it, and at the step that returns the redirect the store
\* holds the entry of the state token named in the URL.
C19_SaveBeforeRedirect ==
  /\ [](req.kind = "init" =>
          /\ (\E i \in Events("setex") : ~req.log[i].ok) =>
               /\ Answered
               /\ req.response.status = 500
               /\ req.response.location = <<>>
          /\ req.response.status = 307 =>
               /\ Len(req.log) = 1
               /\ req.log[1].op = "setex" /\ req.log[1].ok
               /\ req.log[1].key = <<"", Last(req.response.location)>>)
  /\ [][(req.pc = "init_redirect" /\ req'.pc = "done") =>
          /\ req'.response.status = 307
          /\ store'[<<"", Last(req'.response.location)>>].present
          /\ store'[<<"", Last(req'.response.location)>>].val = req.log[1].val]_vars

\* C19 witness: an Init for u1 behind a configured base URL was answered
\* with its redirect, the state entry in the store.
C19_Witness ==
  /\ req.kind = "init" /\ Answered
  /\ req.response.status = 307
  /\ req.userId = "u1"
  /\ env.base # NoEnv
  /\ store[req.state].present

\* C20: every webhook call of a callback comes after a successful
\* TokenRecord write of the same request, and the userId in its body is the
\* one whose key email-token:{userId} that write used.
C20_PersistBeforeNotify ==
  IsCallback =>
    \A i \in Events("webhook") :
      LET u == Get(loads(req.log[i].val).val, "userId")
      IN  /\ u # <<>>
          /\ \E j \in Events("set") :
               /\ j < i
               /\ req.log[j].ok
               /\ req.log[j].key = <<"email-token:", u[1]>>
               /\ store[req.log[j].key].present

\* C20 witness: a callback for u2 has written the TokenRecord and then made
\* its webhook call, which succeeded.
C20_Witness ==
  /\ IsCallback /\ req.pc = "cb_redirect"
  /\ req.userId = "u2"
  /\ \E i \in Events("webhook") : req.log[i].ok

====
